---- MODULE Spec2Model ----
(***************************************************************************)
(* Model of src/lib.rs of agnostic-levenshtein: edit_distance(a, b, ascii) *)
(* and its helper min_distance, the two-row dynamic program.               *)
(*                                                                         *)
(* A &str is its UTF-8 byte buffer, so the inputs a and b are sequences of *)
(* bytes that encode sequences of Unicode scalar values.  The rows         *)
(* dp_prev and dp_curr are Vec<u32>; a Vec is a TLA+ sequence whose        *)
(* element k (0-based, as in the source) is at position k + 1.             *)
(***************************************************************************)
EXTENDS Integers, Sequences, FiniteSets, TLC

VARIABLES
    a,                \* first argument of edit_distance: its UTF-8 bytes
    b,                \* second argument of edit_distance: its UTF-8 bytes
    ascii,            \* the flag of edit_distance
    bits,             \* the width of u32 in this run of the model
    pc,               \* "entry", "outer", "inner", "done", "panic"
    xs,               \* min_distance's slice a (bytes or chars)
    ys,               \* min_distance's slice b (bytes or chars)
    dp_prev,          \* min_distance's previous row
    dp_curr,          \* min_distance's current row
    i,                \* index of the outer loop (over ys)
    j,                \* index of the inner loop (over xs)
    result,           \* the u32 returned by edit_distance
    truncated,        \* history: an `as u32` cast dropped high bits
    wrapped           \* history: a u32 sum overflowed and wrapped around

vars == <<a, b, ascii, bits, pc, xs, ys, dp_prev, dp_curr, i, j, result,
          truncated, wrapped>>

(***************************************************************************)
(* Bounds of the model.                                                    *)
(***************************************************************************)
\* longest text, in characters, of the main specification
MaxLen == 3
\* width of u32 in the main specification: 2^WideBits exceeds every length
WideBits == 5
\* longest text, in characters, of the specification of the two modes
ModeLen == 2
\* longest text, in characters, of the narrow-width specification
NarrowLen == 5
\* width of u32 in the narrow-width specification
NarrowBits == 2
\* longest text, in characters, of the specification of the rolling rows
RowsLen == 3
\* longest text, in characters, of the specification of the triangle
TriLen == 3

(***************************************************************************)
(* Unicode scalar values used as characters, all from the texts of the     *)
(* tests:  'a' U+0061 (61), 'b' U+0062 (62), U+0101 (C4 81),               *)
(* U+012B (C4 AB), U+016B (C5 AB), U+1E25 (E1 B8 A5).  U+0101 and U+012B   *)
(* share their first byte, U+012B and U+016B their second.                 *)
(***************************************************************************)
AsciiChars == {97, 98}
MainChars == {97, 98, 257}
TriChars == {97, 257}
ModeChars == {97, 257, 299, 363, 7717}

Min2(x, y) == IF x <= y THEN x ELSE y

RECURSIVE Pow2(_)
Pow2(n) == IF n = 0 THEN 1 ELSE 2 * Pow2(n - 1)

\* all sequences over alphabet of length at most n
RECURSIVE SeqsUpTo(_, _)
SeqsUpTo(alphabet, n) ==
    IF n = 0 THEN {<<>>}
    ELSE LET shorter == SeqsUpTo(alphabet, n - 1)
         IN  shorter \cup {Append(s, c) : s \in shorter, c \in alphabet}

(***************************************************************************)
(* UTF-8, the encoding of &str.                                            *)
(***************************************************************************)
Utf8Char(c) ==
    IF c < 128 THEN <<c>>
    ELSE IF c < 2048 THEN <<192 + (c \div 64), 128 + (c % 64)>>
    ELSE IF c < 65536 THEN
        <<224 + (c \div 4096), 128 + ((c \div 64) % 64), 128 + (c % 64)>>
    ELSE <<240 + (c \div 262144), 128 + ((c \div 4096) % 64),
           128 + ((c \div 64) % 64), 128 + (c % 64)>>

RECURSIVE Utf8(_)
Utf8(text) ==
    IF text = <<>> THEN <<>>
    ELSE Utf8Char(Head(text)) \o Utf8(Tail(text))

\* str::chars(): decode the byte buffer into scalar values
RECURSIVE Chars(_)
Chars(s) ==
    IF s = <<>> THEN <<>>
    ELSE LET b0 == s[1]
             k  == IF b0 < 128 THEN 1
                   ELSE IF b0 < 224 THEN 2
                   ELSE IF b0 < 240 THEN 3 ELSE 4
             cp == IF k = 1 THEN b0
                   ELSE IF k = 2 THEN (b0 - 192) * 64 + (s[2] - 128)
                   ELSE IF k = 3 THEN
                       (b0 - 224) * 4096 + (s[2] - 128) * 64 + (s[3] - 128)
                   ELSE (b0 - 240) * 262144 + (s[2] - 128) * 4096
                        + (s[3] - 128) * 64 + (s[4] - 128)
         IN  <<cp>> \o Chars(SubSeq(s, k + 1, Len(s)))

\* str::as_bytes(): the buffer itself
AsBytes(s) == s

\* str::len() and str::chars().count()
ByteLen(s) == Len(s)
CharCount(s) == Len(Chars(s))

(***************************************************************************)
(* u32 arithmetic at width w.                                              *)
(***************************************************************************)
\* `x as u32`: keeps the low w bits
AsU32(x, w) == x % Pow2(w)

\* does `x as u32` drop bits
Truncates(x, w) == x >= Pow2(w)

\* does the u32 sum x + 1 overflow
Overflows(x, w) == x + 1 >= Pow2(w)

\* x + 1 on u32 in a build without overflow checks
WrappingInc(x, w) == (x + 1) % Pow2(w)

\* Does a u32 sum panic: an overflowing sum panics in a build with overflow
\* checks and wraps in one without, and a run in which a sum has wrapped
\* belongs to a build without the checks.
OverflowPanics(overflowing, has_wrapped) ==
    IF overflowing /\ ~has_wrapped THEN BOOLEAN ELSE {FALSE}

\* the builds a run can belong to: with or without overflow checks
OverflowChecksOf(has_wrapped) == IF has_wrapped THEN {FALSE} ELSE BOOLEAN

(***************************************************************************)
(* Vec<u32> helpers, 0-based as in the source.                             *)
(***************************************************************************)
InRange(v, k) == k >= 0 /\ k < Len(v)
At(v, k) == v[k + 1]
Store(v, k, x) == [v EXCEPT ![k + 1] = x]

\* (0..=top).collect()
RangeInclusive(top) == [k \in 1..(top + 1) |-> k - 1]

\* vec![0; len]
Zeros(len) == [k \in 1..len |-> 0]

(***************************************************************************)
(* edit_distance: the early returns and the dispatch on the flag.          *)
(***************************************************************************)
\* mutant: the two units exchanged
LengthSwapped(s, flag) == IF flag THEN CharCount(s) ELSE ByteLen(s)

Length(s, flag) == IF flag THEN ByteLen(s) ELSE CharCount(s)

\* mutant: the flag ignored, bytes in both modes
PreparedIgnoresFlag(s, flag) == AsBytes(s)

Prepared(s, flag) == IF flag THEN AsBytes(s) ELSE Chars(s)

\* mutant: equal inputs return through the length of b
ReturnEqualAsLength ==
    /\ pc = "entry"
    /\ a = b
    /\ result' = AsU32(Length(b, ascii), bits)
    /\ pc' = "done"
    /\ UNCHANGED <<a, b, ascii, bits, xs, ys, dp_prev,
                   dp_curr, i, j, truncated, wrapped>>

ReturnEqual ==
    /\ pc = "entry"
    /\ a = b
    /\ result' = 0
    /\ pc' = "done"
    /\ UNCHANGED <<a, b, ascii, bits, xs, ys, dp_prev,
                   dp_curr, i, j, truncated, wrapped>>

ReturnAEmpty ==
    /\ pc = "entry"
    /\ a # b
    /\ ByteLen(a) = 0
    /\ result' = AsU32(Length(b, ascii), bits)
    /\ truncated' = Truncates(Length(b, ascii), bits)
    /\ pc' = "done"
    /\ UNCHANGED <<a, b, ascii, bits, xs, ys, dp_prev,
                   dp_curr, i, j, wrapped>>

\* mutant: the branch of the empty b returns the length of b
ReturnBEmptyCopyPaste ==
    /\ pc = "entry"
    /\ a # b
    /\ ByteLen(a) # 0
    /\ ByteLen(b) = 0
    /\ result' = AsU32(Length(b, ascii), bits)
    /\ truncated' = Truncates(Length(b, ascii), bits)
    /\ pc' = "done"
    /\ UNCHANGED <<a, b, ascii, bits, xs, ys, dp_prev,
                   dp_curr, i, j, wrapped>>

ReturnBEmpty ==
    /\ pc = "entry"
    /\ a # b
    /\ ByteLen(a) # 0
    /\ ByteLen(b) = 0
    /\ result' = AsU32(Length(a, ascii), bits)
    /\ truncated' = Truncates(Length(a, ascii), bits)
    /\ pc' = "done"
    /\ UNCHANGED <<a, b, ascii, bits, xs, ys, dp_prev,
                   dp_curr, i, j, wrapped>>

\* mutant: b_chars collected from a
CallMinDistanceCopyPaste ==
    /\ pc = "entry"
    /\ a # b
    /\ ByteLen(a) # 0
    /\ ByteLen(b) # 0
    /\ xs' = Prepared(a, ascii)
    /\ ys' = IF ascii THEN AsBytes(b) ELSE Chars(a)
    /\ LET m == Len(Prepared(a, ascii))
       IN  /\ dp_prev' = RangeInclusive(AsU32(m, bits))
           /\ dp_curr' = Zeros(m + 1)
           /\ truncated' = Truncates(m, bits)
    /\ i' = 0
    /\ pc' = "outer"
    /\ UNCHANGED <<a, b, ascii, bits, j, result, wrapped>>

\* the call of min_distance and its first statements, up to the outer loop
CallMinDistance ==
    /\ pc = "entry"
    /\ a # b
    /\ ByteLen(a) # 0
    /\ ByteLen(b) # 0
    /\ xs' = Prepared(a, ascii)
    /\ ys' = Prepared(b, ascii)
    /\ LET m == Len(Prepared(a, ascii))
       IN  /\ dp_prev' = RangeInclusive(AsU32(m, bits))
           /\ dp_curr' = Zeros(m + 1)
           /\ truncated' = Truncates(m, bits)
    /\ i' = 0
    /\ pc' = "outer"
    /\ UNCHANGED <<a, b, ascii, bits, j, result, wrapped>>

(***************************************************************************)
(* min_distance: the loops.                                                *)
(***************************************************************************)
\* mutant: dp_curr[0] is not set at the head of the outer loop
OuterNextNoBase ==
    /\ pc = "outer"
    /\ i < Len(ys)
    /\ j' = 1
    /\ pc' = "inner"
    /\ UNCHANGED <<a, b, ascii, bits, xs, ys, dp_prev,
                   dp_curr, i, result, truncated, wrapped>>

\* head of the outer loop: the next element of ys and dp_curr[0] = i as u32 + 1
OuterNext ==
    /\ pc = "outer"
    /\ i < Len(ys)
    /\ LET iu == AsU32(i, bits)
       IN  \E panics \in OverflowPanics(Overflows(iu, bits), wrapped) :
              IF panics
              THEN /\ pc' = "panic"
                   /\ UNCHANGED <<dp_curr, j, wrapped>>
              ELSE /\ dp_curr' = Store(dp_curr, 0, WrappingInc(iu, bits))
                   /\ wrapped' = (wrapped \/ Overflows(iu, bits))
                   /\ j' = 1
                   /\ pc' = "inner"
    /\ truncated' = (truncated \/ Truncates(i, bits))
    /\ UNCHANGED <<a, b, ascii, bits, xs, ys, dp_prev, i, result>>

\* mutant: no substitution among the candidates
CellValueNoSubstitute(prev, curr, ax, bch, col, w) ==
    IF At(ax, col - 1) = bch
    THEN At(prev, col - 1)
    ELSE LET insert == WrappingInc(At(curr, col - 1), w)
             delete == WrappingInc(At(prev, col), w)
         IN  Min2(insert, delete)

\* mutant: no deletion among the candidates
CellValueNoDelete(prev, curr, ax, bch, col, w) ==
    IF At(ax, col - 1) = bch
    THEN At(prev, col - 1)
    ELSE LET insert     == WrappingInc(At(curr, col - 1), w)
             substitute == WrappingInc(At(prev, col - 1), w)
         IN  Min2(insert, substitute)

\* mutant: a match copies the cell above, not the diagonal one
CellValueMatchAbove(prev, curr, ax, bch, col, w) ==
    IF At(ax, col - 1) = bch
    THEN At(prev, col)
    ELSE LET insert     == WrappingInc(At(curr, col - 1), w)
             delete     == WrappingInc(At(prev, col), w)
             substitute == WrappingInc(At(prev, col - 1), w)
         IN  Min2(Min2(insert, delete), substitute)

\* the value stored in dp_curr[col] by one pass of the inner loop's body,
\* where ax is the slice a and bch the element *b_char of the outer loop
CellValue(prev, curr, ax, bch, col, w) ==
    IF At(ax, col - 1) = bch
    THEN At(prev, col - 1)
    ELSE LET insert     == WrappingInc(At(curr, col - 1), w)
             delete     == WrappingInc(At(prev, col), w)
             substitute == WrappingInc(At(prev, col - 1), w)
         IN  Min2(Min2(insert, delete), substitute)

\* the indices the body of the inner loop reads and writes are in range
CellInRange(prev, curr, ax, bch, col) ==
    IF At(ax, col - 1) = bch
    THEN InRange(prev, col - 1) /\ InRange(curr, col)
    ELSE /\ InRange(curr, col - 1)
         /\ InRange(prev, col)
         /\ InRange(prev, col - 1)
         /\ InRange(curr, col)

\* one of the three sums of the body overflows u32
CellOverflows(prev, curr, ax, bch, col, w) ==
    /\ At(ax, col - 1) # bch
    /\ \/ Overflows(At(curr, col - 1), w)
       \/ Overflows(At(prev, col), w)
       \/ Overflows(At(prev, col - 1), w)

\* one pass of the inner loop's body, for j in 1..=m
InnerStep ==
    /\ pc = "inner"
    /\ j <= Len(xs)
    /\ IF ~CellInRange(dp_prev, dp_curr, xs, At(ys, i), j)
       THEN /\ pc' = "panic"
            /\ UNCHANGED <<dp_curr, j, wrapped>>
       ELSE LET over == CellOverflows(dp_prev, dp_curr, xs, At(ys, i), j,
                                      bits)
            IN  \E panics \in OverflowPanics(over, wrapped) :
                   IF panics
                   THEN /\ pc' = "panic"
                        /\ UNCHANGED <<dp_curr, j, wrapped>>
                   ELSE /\ dp_curr' = Store(dp_curr, j,
                                CellValue(dp_prev, dp_curr, xs, At(ys, i), j,
                                          bits))
                        /\ wrapped' = (wrapped \/ over)
                        /\ j' = j + 1
                        /\ pc' = "inner"
    /\ UNCHANGED <<a, b, ascii, bits, xs, ys, dp_prev, i,
                   result, truncated>>

\* end of the inner loop: swap(&mut dp_prev, &mut dp_curr)
Swap ==
    /\ pc = "inner"
    /\ j > Len(xs)
    /\ dp_prev' = dp_curr
    /\ dp_curr' = dp_prev
    /\ i' = i + 1
    /\ pc' = "outer"
    /\ UNCHANGED <<a, b, ascii, bits, xs, ys, j, result,
                   truncated, wrapped>>

\* end of the outer loop: return dp_prev[m]
ReturnLast ==
    /\ pc = "outer"
    /\ i >= Len(ys)
    /\ IF InRange(dp_prev, Len(xs))
       THEN /\ result' = At(dp_prev, Len(xs))
            /\ pc' = "done"
       ELSE /\ pc' = "panic"
            /\ UNCHANGED result
    /\ UNCHANGED <<a, b, ascii, bits, xs, ys, dp_prev,
                   dp_curr, i, j, truncated, wrapped>>

Next ==
    \/ ReturnEqual
    \/ ReturnAEmpty
    \/ ReturnBEmpty
    \/ CallMinDistance
    \/ OuterNext
    \/ InnerStep
    \/ Swap
    \/ ReturnLast

(***************************************************************************)
(* The same code as functions of its arguments, for the properties that    *)
(* relate two or more calls.  checks says whether the build has overflow   *)
(* checks.  A call either returns a value or panics: on an index out of    *)
(* range in every build, on an overflowing sum in a build with the checks. *)
(***************************************************************************)
\* the outcomes of a call or of a loop
Ok(v) == [panic |-> FALSE, value |-> v]
Panic == [panic |-> TRUE, value |-> <<>>]

\* the inner loop from column col on: the finished row dp_curr
RECURSIVE InnerLoop(_, _, _, _, _, _, _)
InnerLoop(prev, curr, ax, bch, col, w, checks) ==
    IF col > Len(ax) THEN Ok(curr)
    ELSE IF ~CellInRange(prev, curr, ax, bch, col) THEN Panic
    ELSE IF CellOverflows(prev, curr, ax, bch, col, w) /\ checks THEN Panic
    ELSE InnerLoop(prev,
                   Store(curr, col, CellValue(prev, curr, ax, bch, col, w)),
                   ax, bch, col + 1, w, checks)

\* the outer loop from row on, with the swap, and the final dp_prev[m]
RECURSIVE OuterLoop(_, _, _, _, _, _, _)
OuterLoop(prev, curr, ax, by, row, w, checks) ==
    IF row >= Len(by)
    THEN IF InRange(prev, Len(ax)) THEN Ok(At(prev, Len(ax))) ELSE Panic
    ELSE IF Overflows(AsU32(row, w), w) /\ checks THEN Panic
    ELSE LET based == Store(curr, 0, WrappingInc(AsU32(row, w), w))
             done  == InnerLoop(prev, based, ax, At(by, row), 1, w, checks)
         IN  IF done.panic THEN Panic
             ELSE OuterLoop(done.value, prev, ax, by, row + 1, w, checks)

min_distance(ax, by, w, checks) ==
    OuterLoop(RangeInclusive(AsU32(Len(ax), w)), Zeros(Len(ax) + 1),
              ax, by, 0, w, checks)

edit_distance(sa, sb, flag, w, checks) ==
    IF sa = sb THEN Ok(0)
    ELSE IF ByteLen(sa) = 0 THEN Ok(AsU32(Length(sb, flag), w))
    ELSE IF ByteLen(sb) = 0 THEN Ok(AsU32(Length(sa, flag), w))
    ELSE min_distance(Prepared(sa, flag), Prepared(sb, flag), w, checks)

(***************************************************************************)
(* Specifications: the state at the call of edit_distance.                 *)
(***************************************************************************)
Strs(alphabet, n) == {Utf8(t) : t \in SeqsUpTo(alphabet, n)}

InitWith(strs, w) ==
    /\ a \in strs
    /\ b \in strs
    /\ ascii \in BOOLEAN
    /\ bits = w
    /\ pc = "entry"
    /\ xs = <<>>
    /\ ys = <<>>
    /\ dp_prev = <<>>
    /\ dp_curr = <<>>
    /\ i = 0
    /\ j = 0
    /\ result = 0
    /\ truncated = FALSE
    /\ wrapped = FALSE

Init == InitWith(Strs(MainChars, MaxLen), WideBits)
Spec == Init /\ [][Next]_vars

InitModes == InitWith(Strs(ModeChars, ModeLen), WideBits)
SpecModes == InitModes /\ [][Next]_vars

InitNarrow == InitWith(Strs(AsciiChars, NarrowLen), NarrowBits)
SpecNarrow == InitNarrow /\ [][Next]_vars

InitRows == InitWith(Strs(MainChars, RowsLen), WideBits)
SpecRows == InitRows /\ [][Next]_vars

TriStrs == Strs(TriChars, TriLen)
InitTriangle == InitWith(TriStrs, WideBits)
SpecTriangle == InitTriangle /\ [][Next]_vars

(***************************************************************************)
(* The reference of the properties: the full (m+1) x (n+1) matrix of the   *)
(* recurrence  D[r][0] = r, D[0][c] = c, D[r][c] = D[r-1][c-1] when        *)
(* x[r] = y[c], else 1 + min(D[r][c-1], D[r-1][c], D[r-1][c-1]).           *)
(* Rows are over x, columns over y; numbers are unbounded.                 *)
(***************************************************************************)
Min3(x, y, z) == Min2(Min2(x, y), z)

\* row of element xr from the row above it; acc holds its first cells
RECURSIVE RefRow(_, _, _, _)
RefRow(xr, y, above, acc) ==
    IF Len(acc) > Len(y) THEN acc
    ELSE LET c == Len(acc)
             v == IF xr = y[c] THEN above[c]
                  ELSE 1 + Min3(acc[c], above[c + 1], above[c])
         IN  RefRow(xr, y, above, Append(acc, v))

\* rows 0..last of the matrix, from the rows already in rows
RECURSIVE RefRows(_, _, _, _)
RefRows(x, y, rows, last) ==
    IF Len(rows) > last THEN rows
    ELSE LET r == Len(rows)
         IN  RefRows(x, y, Append(rows, RefRow(x[r], y, rows[r], <<r>>)), last)

RefMatrixTo(x, y, last) ==
    RefRows(x, y, <<[c \in 1..(Len(y) + 1) |-> c - 1]>>, last)

RefMatrix(x, y) == RefMatrixTo(x, y, Len(x))

RefCell(M, r, c) == M[r + 1][c + 1]

RefDistance(x, y) == RefCell(RefMatrix(x, y), Len(x), Len(y))

\* a buffer of single-byte characters only
IsAscii(s) == \A k \in 1..Len(s) : s[k] < 128

\* the number of characters of a UTF-8 buffer: its bytes that continue none
ScalarCount(s) == Cardinality({k \in 1..Len(s) : s[k] < 128 \/ s[k] >= 192})

\* the text t without its p-th character
RemoveAt(t, p) == SubSeq(t, 1, p - 1) \o SubSeq(t, p + 1, Len(t))

\* edit_distance on every pair of inputs of the triangle's specification
TriDistance ==
    [checks \in BOOLEAN |->
        [flag \in BOOLEAN |->
            [s \in TriStrs |->
                [t \in TriStrs |->
                    edit_distance(s, t, flag, WideBits, checks)]]]]

\* the call of the same build returns v
Returns(sa, sb, flag, checks, v) ==
    LET r == edit_distance(sa, sb, flag, bits, checks)
    IN  ~r.panic /\ r.value = v

\* the machine and the function are the same code: a run that ends is the
\* call of a build
MachineIsFunction ==
    /\ pc = "done" =>
          \E checks \in OverflowChecksOf(wrapped) :
              Returns(a, b, ascii, checks, result)
    /\ pc = "panic" =>
          \E checks \in OverflowChecksOf(wrapped) :
              edit_distance(a, b, ascii, bits, checks).panic
    /\ (pc = "done" /\ ~wrapped) =>
          \A checks \in BOOLEAN : Returns(a, b, ascii, checks, result)

(***************************************************************************)
(* C1: in either mode edit_distance returns the Levenshtein distance of    *)
(* the prepared sequences, as the reference recurrence gives it, through   *)
(* the early returns and through min_distance alike.                       *)
(***************************************************************************)
C1_Levenshtein ==
    pc = "done" =>
        result = RefDistance(Prepared(a, ascii), Prepared(b, ascii))

C1_Witness ==
    /\ pc = "done"
    /\ Len(xs) = 3
    /\ Len(ys) = 3
    /\ xs[1] = ys[1]
    /\ result = 2

(***************************************************************************)
(* C2: edit_distance is total: it never panics (no index out of range, no  *)
(* overflowing sum) and no cast or sum loses bits, also when a length does *)
(* not fit the width of u32.                                               *)
(***************************************************************************)
C2_Total ==
    /\ pc # "panic"
    /\ ~truncated
    /\ ~wrapped

(***************************************************************************)
(* C3: symmetry: the result for (a, b) is the result for (b, a) in the     *)
(* same mode.                                                              *)
(***************************************************************************)
C3_Symmetry ==
    pc = "done" =>
        \A checks \in BOOLEAN : Returns(b, a, ascii, checks, result)

C3_Witness ==
    /\ pc = "done"
    /\ Len(xs) > Len(ys)
    /\ Len(ys) > 0
    /\ result > Len(xs) - Len(ys)
    /\ Returns(b, a, ascii, TRUE, result)

(***************************************************************************)
(* C4: triangle inequality: the result for (a, b) is at most the sum of    *)
(* the results for (a, c) and (c, b), for every c, in the same mode.       *)
(***************************************************************************)
C4_Triangle ==
    pc = "done" =>
        \A checks \in BOOLEAN, c \in TriStrs :
            LET ac == TriDistance[checks][ascii][a][c]
                cb == TriDistance[checks][ascii][c][b]
            IN  /\ ~ac.panic
                /\ ~cb.panic
                /\ result <= ac.value + cb.value

C4_Witness ==
    /\ pc = "done"
    /\ xs # <<>>
    /\ result = 3
    /\ \E c \in TriStrs :
          /\ TriDistance[TRUE][ascii][a][c] = Ok(1)
          /\ TriDistance[TRUE][ascii][c][b] = Ok(2)

(***************************************************************************)
(* C5: when exactly one input is empty the result is the length of the     *)
(* other one, in bytes when the flag is true and in characters when it is  *)
(* false, whichever argument is the empty one; when both are empty it is 0.*)
(***************************************************************************)
C5_EmptyBase ==
    pc = "done" =>
        /\ (a = <<>> /\ b # <<>>) =>
               result = IF ascii THEN Len(b) ELSE ScalarCount(b)
        /\ (b = <<>> /\ a # <<>>) =>
               result = IF ascii THEN Len(a) ELSE ScalarCount(a)
        /\ (a = <<>> /\ b = <<>>) => result = 0

C5_Witness ==
    /\ pc = "done"
    /\ b = <<>>
    /\ ~ascii
    /\ Len(a) = 5
    /\ result = 2

(***************************************************************************)
(* C6: identity: the result for (t, t) is 0 in both modes, for the empty   *)
(* text and for texts with multi-byte characters compared bytewise.        *)
(***************************************************************************)
C6_Identity ==
    (pc = "done" /\ a = b) => result = 0

C6_Witness ==
    /\ pc = "done"
    /\ a = b
    /\ ascii
    /\ ~IsAscii(a)
    /\ result = 0

(***************************************************************************)
(* C7: on inputs of single-byte characters only, the two modes return the  *)
(* same value.                                                             *)
(***************************************************************************)
C7_AsciiModesAgree ==
    (pc = "done" /\ IsAscii(a) /\ IsAscii(b)) =>
        \A checks \in BOOLEAN : Returns(a, b, ~ascii, checks, result)

C7_Witness ==
    /\ pc = "done"
    /\ IsAscii(a)
    /\ IsAscii(b)
    /\ ~ascii
    /\ Len(xs) = 3
    /\ Len(ys) = 2
    /\ result = 2

(***************************************************************************)
(* C8: when b is a with one character deleted, the result is 1 in          *)
(* character mode and the byte length of that character in byte mode.      *)
(***************************************************************************)
C8_DeleteOne ==
    pc = "done" =>
        \A p \in 1..Len(Chars(a)) :
            b = Utf8(RemoveAt(Chars(a), p)) =>
                result = IF ascii THEN Len(Utf8Char(Chars(a)[p])) ELSE 1

C8_Witness ==
    /\ pc = "done"
    /\ ascii
    /\ b # <<>>
    /\ \E p \in 1..Len(Chars(a)) : b = Utf8(RemoveAt(Chars(a), p))
    /\ result = 3
    /\ Returns(a, b, FALSE, TRUE, 1)

(***************************************************************************)
(* C9: the rolling rows are rows of the full matrix: when i elements of    *)
(* ys are done dp_prev is row i (so dp_prev[0] = i, and at first           *)
(* dp_prev[j] = j), the cells of dp_curr already written are those of row  *)
(* i + 1, the next cell does not depend on the rest of dp_curr, and the    *)
(* value returned is cell [m][n] of the matrix of xs against ys.           *)
(***************************************************************************)
\* curr with every cell from column col on replaced by junk
Stale(curr, col, junk) ==
    [k \in 1..Len(curr) |-> IF k <= col THEN curr[k] ELSE junk]

C9_RollingRows ==
    LET m == Len(xs)
        M == RefMatrixTo(ys, xs, IF pc = "inner" THEN i + 1 ELSE i)
    IN  /\ pc \in {"outer", "inner"} =>
              /\ Len(dp_prev) = m + 1
              /\ Len(dp_curr) = m + 1
              /\ At(dp_prev, 0) = i
              /\ dp_prev = M[i + 1]
        /\ (pc = "outer" /\ i = 0) =>
              \A col \in 0..m : At(dp_prev, col) = col
        /\ pc = "inner" =>
              \A col \in 0..(j - 1) : At(dp_curr, col) = RefCell(M, i + 1, col)
        /\ (pc = "inner" /\ j <= m) =>
              \A junk \in {0, m + Len(ys) + 1} :
                  CellValue(dp_prev, dp_curr, xs, At(ys, i), j, bits)
                  = CellValue(dp_prev, Stale(dp_curr, j, junk), xs,
                              At(ys, i), j, bits)
        /\ (pc = "done" /\ xs # <<>>) =>
              result = RefCell(RefMatrix(xs, ys), Len(xs), Len(ys))

C9_Witness ==
    /\ pc = "outer"
    /\ i = 2
    /\ Len(xs) = 3
    /\ Len(ys) = 3
    /\ At(dp_prev, 3) = 1
    /\ dp_curr # dp_prev

(***************************************************************************)
(* C10: byte mode never undercounts: the result in byte mode is at least   *)
(* the result in character mode on the same inputs.                        *)
(***************************************************************************)
C10_BytesAtLeastChars ==
    pc = "done" =>
        \A checks \in BOOLEAN :
            LET other == edit_distance(a, b, ~ascii, bits, checks)
            IN  /\ ~other.panic
                /\ IF ascii THEN result >= other.value
                            ELSE result <= other.value

C10_Witness ==
    /\ pc = "done"
    /\ ascii
    /\ Len(a) = Len(b)
    /\ Len(a) = 4
    /\ Returns(a, b, FALSE, TRUE, 1)
    /\ result = 2

====
